---------------------------- MODULE Spec2Model ----------------------------
(***************************************************************************)
(* A model of src/engine/piedpiper_compress.c: the bit writer with its     *)
(* function-local static accumulator, the hash-chain index, the match      *)
(* finder, pp_compress and pp_decompress.                                  *)
(*                                                                         *)
(* A buffer of the caller is held as (input, input_size): byte i of the    *)
(* buffer is input[(i % Len(input)) + 1], so that a long buffer with a      *)
(* short period is a small value.  Every buffer of at most MaxLen bytes is *)
(* its own period.  hash_table and prev are held as functions on the       *)
(* entries the code has written; every other entry is the -1 of the        *)
(* memset in pp_init_context.  The host is taken to be little-endian, as   *)
(* the struct PP_Header is copied to the artifact with memcpy.             *)
(***************************************************************************)
EXTENDS Integers, Sequences, FiniteSets, TLC

\* ------------------------------------------------------------ constants
PP_MAGIC == 20560
MAX_WINDOW_SIZE == 32768
MAX_LOOKAHEAD == 258
MIN_MATCH == 3
HASH_BITS == 15
HASH_SIZE == 2 ^ HASH_BITS
HASH_MASK == HASH_SIZE - 1
CHAIN_LIMIT == 128
HEADER_SIZE == 16
OUTPUT_SLACK == 1024
DEFAULT_LEVEL == 6

\* ------------------------------------------------------------ bounds
MaxLen == 3
MaxLevel == 2
MaxCalls == 2
MaxProcs == 2
MaxSize == 3
MaxBody == 5
LongRun == 300
CapLen == 40328

Alphabet == {97, 255}
Levels == 1..MaxLevel
\* What an indeterminate byte (uninitialised or out of bounds) may hold.
Garbage == {0, 255}

\* ------------------------------------------------------------ state
VARIABLES
    bit_buffer,      \* pp_write_bits: static uint32_t bit_buffer
    bits_in_buffer,  \* pp_write_bits: static uint8_t bits_in_buffer
    pc,              \* where the process is
    proc,            \* number of the running process
    calls,           \* pp_compress calls made so far
    input,           \* caller's input buffer (one period of it)
    input_size,
    level,
    ocap,            \* *output_size on entry of pp_compress
    ctx,             \* PP_Context of the running pp_compress
    pos,             \* pp_compress: pos
    match,           \* the last LZ77_Match pp_find_longest_match returned
    tokens,          \* the tokens the running pp_compress has emitted
    dropped,         \* bytes pp_write_bits found no room for
    start,           \* the static accumulator on entry of pp_compress
    rc,              \* pp_compress: <<return value>>, <<>> until it returns
    artifact,        \* caller's output buffer after pp_compress
    out_len,         \* *output_size after pp_compress
    log,             \* the pp_compress calls that returned
    d_in,            \* pp_decompress: input
    d_cap,           \* pp_decompress: *output_size on entry
    rd,              \* pp_decompress: in_ptr, bit_buffer, bits_available
    out_pos,         \* pp_decompress: out_pos
    output,          \* pp_decompress: the bytes written to output
    d_rc,            \* pp_decompress: <<return value>>, <<>> until then
    d_len,           \* *output_size after pp_decompress
    honest,          \* d_in is the artifact pp_compress made of input
    acc              \* what the running pp_decompress has accessed

vars == <<bit_buffer, bits_in_buffer, pc, proc, calls, input, input_size,
          level, ocap, ctx, pos, match, tokens, dropped, start, rc, artifact,
          out_len, log, d_in, d_cap, rd, out_pos, output, d_rc, d_len,
          honest, acc>>

writerVars == <<bit_buffer, bits_in_buffer>>
encVars == <<input, input_size, level, ocap, ctx, pos, match, tokens,
             dropped, start, rc, artifact, out_len>>
decVars == <<d_in, d_cap, rd, out_pos, output, d_rc, d_len, honest, acc>>

NoCtx == [input_size |-> 0, output |-> <<>>, output_size |-> 0,
          output_pos |-> 0, hash_table |-> <<>>, prev |-> <<>>,
          matches_found |-> 0]
NoMatch == [offset |-> 0, length |-> 0]
NoReader == [in_ptr |-> 0, bit_buffer |-> 0, bits_available |-> 0,
             oob |-> FALSE]
NoAccess == [in_oob |-> FALSE, out_oob |-> FALSE, src_bad |-> FALSE,
             bad_offset |-> FALSE, overrun |-> FALSE, token |-> NoMatch]

\* ------------------------------------------------------------ bit helpers
RECURSIVE BitXor(_, _)
BitXor(a, b) ==
    IF a = 0 THEN b
    ELSE IF b = 0 THEN a
    ELSE (((a % 2) + (b % 2)) % 2) + (2 * BitXor(a \div 2, b \div 2))

RECURSIVE BitOr(_, _)
BitOr(a, b) ==
    IF a = 0 THEN b
    ELSE IF b = 0 THEN a
    ELSE (IF (a % 2) + (b % 2) > 0 THEN 1 ELSE 0)
             + (2 * BitOr(a \div 2, b \div 2))

Shl(x, n) == x * (2 ^ n)
Shr(x, n) == x \div (2 ^ n)
\* x & ((1 << n) - 1)
LowBits(x, n) == x % (2 ^ n)

\* Byte i (from 0) of the caller's input buffer.
In(i) == input[(i % Len(input)) + 1]

\* The little-endian bytes of an unsigned integer.
LE16(n) == <<n % 256, (n \div 256) % 256>>
LE32(n) == <<n % 256, (n \div 256) % 256, (n \div 65536) % 256,
             (n \div 16777216) % 256>>
FromLE16(s, i) == s[i] + (256 * s[i + 1])
FromLE32(s, i) == s[i] + (256 * s[i + 1]) + (65536 * s[i + 2])
                      + (16777216 * s[i + 3])

\* ------------------------------------------------------------ hash chains
hash_func(p) ==
    LowBits(BitXor(BitXor(Shl(In(p), 10), Shl(In(p + 1), 5)), In(p + 2)),
            HASH_BITS)

HashAt(c, h) == IF h \in DOMAIN c.hash_table THEN c.hash_table[h] ELSE -1
PrevAt(c, p) == IF p \in DOMAIN c.prev THEN c.prev[p] ELSE -1

pp_init_context(size) ==
    [input_size |-> size,
     output |-> <<>>,
     output_size |-> size + (size \div 10) + OUTPUT_SLACK,
     output_pos |-> 0,
     hash_table |-> <<>>,
     prev |-> <<>>,
     matches_found |-> 0]

pp_update_hash(c, p) ==
    IF p + MIN_MATCH > c.input_size THEN c
    ELSE LET hash == hash_func(p)
         IN [c EXCEPT !.prev = (p :> HashAt(c, hash)) @@ c.prev,
                      !.hash_table = (hash :> p) @@ c.hash_table]

\* The inner loop of pp_find_longest_match, run for at most n iterations
\* from len: the loop stops for good once its condition fails.  The n
\* iterations are split in two halves (the comparison, never true, has the
\* first half evaluated before the second begins).
RECURSIVE MatchLoop(_, _, _, _, _)
MatchLoop(q, p, len, max_match, n) ==
    IF n = 0 THEN len
    ELSE IF n = 1
    THEN IF len < max_match /\ In(q + len) = In(p + len)
         THEN len + 1 ELSE len
    ELSE LET half == MatchLoop(q, p, len, max_match, n \div 2)
         IN  IF half < len THEN half
             ELSE MatchLoop(q, p, half, max_match, n - (n \div 2))

\* The length of the common prefix of input[q..] and input[p..], at most
\* max_match.
MatchLen(q, p, len, max_match) == MatchLoop(q, p, len, max_match, max_match)

\* The chain walk of pp_find_longest_match.  p - chain_pos is computed in
\* uint32_t: a chain_pos beyond p wraps to a value above MAX_WINDOW_SIZE.
RECURSIVE ChainWalk(_, _, _, _, _, _, _)
ChainWalk(c, p, max_match, chain_pos, chain_limit, best_len, best_offset) ==
    LET best == [length |-> best_len, offset |-> best_offset]
        offset == p - chain_pos
    IN  IF ~(chain_pos >= 0 /\ chain_limit > 0) THEN best
        ELSE IF offset < 0 \/ offset > MAX_WINDOW_SIZE THEN best
        ELSE IF offset = 0 THEN best
        ELSE IF In(chain_pos + best_len) = In(p + best_len)
        THEN LET len == MatchLen(chain_pos, p, 0, max_match)
             IN  IF len >= MIN_MATCH /\ len > best_len
                 THEN IF len = max_match
                      THEN [length |-> len, offset |-> offset]
                      ELSE ChainWalk(c, p, max_match, PrevAt(c, chain_pos),
                                     chain_limit - 1, len, offset)
                 ELSE ChainWalk(c, p, max_match, PrevAt(c, chain_pos),
                                chain_limit - 1, best_len, best_offset)
        ELSE ChainWalk(c, p, max_match, PrevAt(c, chain_pos),
                       chain_limit - 1, best_len, best_offset)

pp_find_longest_match(c, p) ==
    IF p + MIN_MATCH > c.input_size THEN NoMatch
    ELSE LET max_match == IF c.input_size - p < MAX_LOOKAHEAD
                          THEN c.input_size - p ELSE MAX_LOOKAHEAD
             best == ChainWalk(c, p, max_match, HashAt(c, hash_func(p)),
                               CHAIN_LIMIT, 0, 0)
         IN  IF best.length >= MIN_MATCH THEN best ELSE NoMatch

\* ------------------------------------------------------------ bit writer
\* The while loop of pp_write_bits on the writer state
\* w = [bit_buffer, bits_in_buffer, output_pos, bytes, dropped]: bytes are
\* the bytes stored at output_pos.., dropped counts those that found
\* output_pos = output_size.
RECURSIVE DrainBits(_, _)
DrainBits(w, output_size) ==
    IF w.bits_in_buffer >= 8
    THEN DrainBits(
            [bit_buffer |-> Shr(w.bit_buffer, 8),
             bits_in_buffer |-> w.bits_in_buffer - 8,
             output_pos |-> IF w.output_pos < output_size
                            THEN w.output_pos + 1 ELSE w.output_pos,
             bytes |-> IF w.output_pos < output_size
                       THEN Append(w.bytes, LowBits(w.bit_buffer, 8))
                       ELSE w.bytes,
             dropped |-> IF w.output_pos < output_size
                         THEN w.dropped ELSE w.dropped + 1],
            output_size)
    ELSE w

pp_write_bits(w, output_size, bits, num_bits) ==
    DrainBits([w EXCEPT !.bit_buffer = BitOr(@, Shl(bits, w.bits_in_buffer)),
                        !.bits_in_buffer = (@ + num_bits) % 256],
              output_size)

Writer(c) == [bit_buffer |-> bit_buffer, bits_in_buffer |-> bits_in_buffer,
              output_pos |-> c.output_pos, bytes |-> <<>>, dropped |-> 0]


\* ------------------------------------------------------------ header
\* What a byte of a field that has not been set holds.  pp_compress sets
\* compressed_size and checksum only after the encode loop, and reads
\* neither before.
Unset == "unset"

\* A header whose version_minor follows the level.
PPHeaderLevelInVersion(size, lvl, ftype) ==
    LE16(PP_MAGIC) \o <<1, lvl>> \o LE32(size)
        \o <<Unset, Unset, Unset, Unset>> \o <<lvl, ftype>>
        \o <<Unset, Unset>>

\* struct PP_Header as memcpy lays it out before the encode loop.
PPHeader(size, lvl, ftype) ==
    LE16(PP_MAGIC) \o <<1, 0>> \o LE32(size)
        \o <<Unset, Unset, Unset, Unset>> \o <<lvl, ftype>>
        \o <<Unset, Unset>>

Sig(bytes) == \A i \in 1..Len(bytes) : In(i - 1) = bytes[i]
IsText(b) == (b >= 32 /\ b <= 126) \/ b = 10 \/ b = 13 \/ b = 9

pp_detect_filetype(size) ==
    IF size < 4 THEN 0
    ELSE IF Sig(<<137, 80, 78, 71>>) THEN 1
    ELSE IF Sig(<<255, 216, 255>>) THEN 2
    ELSE IF Sig(<<71, 73, 70, 56>>) THEN 3
    ELSE IF Sig(<<80, 75, 3, 4>>) THEN 4
    ELSE IF Sig(<<37, 80, 68, 70>>) THEN 5
    ELSE LET sample_size == IF size < 1024 THEN size ELSE 1024
             text_chars ==
                 Cardinality({i \in 0..(sample_size - 1) : IsText(In(i))})
         IN  IF text_chars * 10 > sample_size * 9 THEN 10 ELSE 0

\* The checksum loop of pp_compress and pp_decompress over data[i..i+n),
\* the n iterations split in two halves (the comparison, never true, has
\* the first half evaluated before the second begins).
RECURSIVE ChecksumLoop(_, _, _, _)
ChecksumLoop(data, i, n, checksum) ==
    IF n = 0 THEN checksum
    ELSE IF n = 1 THEN (checksum + data[i + 1]) % 65536
    ELSE LET half == ChecksumLoop(data, i, n \div 2, checksum)
         IN  IF half < 0 THEN half
             ELSE ChecksumLoop(data, i + (n \div 2), n - (n \div 2), half)

Checksum(data) == ChecksumLoop(data, 0, Len(data), 0)

InputBytes == [i \in 1..input_size |-> In(i - 1)]

\* s with the bytes at (0-based) offset at.. replaced by bytes.
Patch(s, at, bytes) ==
    [i \in 1..Len(s) |->
        IF i > at /\ i <= at + Len(bytes) THEN bytes[i - at] ELSE s[i]]

\* ------------------------------------------------------------ pp_compress
\* The caller's capacities: none, and enough for every artifact.
OCaps == {0, HEADER_SIZE + 2 * MaxLen + 2}

Buffers == UNION {[1..n -> Alphabet] : n \in 0..MaxLen}

ResetDecoder ==
    /\ d_in' = <<>>
    /\ d_cap' = 0
    /\ rd' = NoReader
    /\ out_pos' = 0
    /\ output' = <<>>
    /\ d_rc' = <<>>
    /\ d_len' = 0
    /\ honest' = FALSE
    /\ acc' = NoAccess

\* pp_compress up to the encode loop, on the buffer of n bytes with period
\* B: the argument check, pp_init_context and the provisional header.
Compress(B, n, L, cap) ==
    /\ input' = B
    /\ input_size' = n
    /\ level' = L
    /\ ocap' = cap
    /\ out_len' = cap
    /\ artifact' = <<>>
    /\ start' = [bit_buffer |-> bit_buffer,
                 bits_in_buffer |-> bits_in_buffer]
    /\ IF n = 0
       THEN /\ rc' = <<-1>>
            /\ pc' = "idle"
            /\ ctx' = NoCtx
       ELSE /\ rc' = <<>>
            /\ pc' = "enc"
            /\ ctx' = [pp_init_context(n) EXCEPT
                         !.output = PPHeader(n, L, pp_detect_filetype(n)'),
                         !.output_pos = HEADER_SIZE]
    /\ calls' = calls + 1
    /\ pos' = 0
    /\ match' = NoMatch
    /\ tokens' = <<>>
    /\ dropped' = 0
    /\ ResetDecoder
    /\ UNCHANGED <<bit_buffer, bits_in_buffer, proc, log>>

\* A pp_compress call on a buffer of at most MaxLen bytes.
CompressCall ==
    /\ pc = "idle"
    /\ calls < MaxCalls
    /\ \E B \in Buffers, L \in Levels, cap \in OCaps :
          Compress(B, Len(B), L, cap)

\* The inputs of the end-to-end scenarios, as (period, size): one byte, a
\* run, a repeated phrase, 16 bytes without a repeat, 300 equal bytes, and
\* 300 bytes whose sum passes 2^16.
Scenarios ==
    {[input |-> <<65>>, size |-> 1],
     [input |-> <<97>>, size |-> 10],
     [input |-> <<97, 98, 99>>, size |-> 12],
     [input |-> [i \in 1..16 |-> 16 * i - 1], size |-> 16],
     [input |-> <<171>>, size |-> LongRun],
     [input |-> <<255>>, size |-> LongRun]}

\* A pp_compress call on a scenario input, at the level main takes when
\* none is given, with room for the artifact.
ScenarioCall ==
    /\ pc = "idle"
    /\ calls < MaxCalls
    /\ \E sc \in Scenarios :
          Compress(sc.input, sc.size, DEFAULT_LEVEL,
                   HEADER_SIZE + 2 * sc.size + 2)

\* The three pp_write_bits calls of a match token.
WriteMatch(w, output_size, m) ==
    pp_write_bits(
        pp_write_bits(pp_write_bits(w, output_size, 1, 1),
                      output_size, m.offset, 15),
        output_size, m.length - MIN_MATCH, 8)

\* The two pp_write_bits calls of a literal token.
WriteLiteral(w, output_size, byte) ==
    pp_write_bits(pp_write_bits(w, output_size, 0, 1), output_size, byte, 8)

\* pp_update_hash for the n positions p+i.. inside a match (pos + i <
\* input_size holds or fails for good), split in two halves (the
\* comparison, never true, has the first half evaluated before the second
\* begins).
RECURSIVE UpdateLoop(_, _, _, _)
UpdateLoop(c, p, i, n) ==
    IF n = 0 THEN c
    ELSE IF n = 1
    THEN IF p + i < c.input_size THEN pp_update_hash(c, p + i) ELSE c
    ELSE LET half == UpdateLoop(c, p, i, n \div 2)
         IN  IF half.input_size # c.input_size THEN half
             ELSE UpdateLoop(half, p, i + (n \div 2), n - (n \div 2))

UpdateInside(c, p, i, length) == UpdateLoop(c, p, i, length - i)

Store(c, w) ==
    [c EXCEPT !.output = @ \o w.bytes, !.output_pos = w.output_pos]

\* The token of one iteration of the encode loop at position p on context
\* c: the context after pp_update_hash and pp_find_longest_match, the match,
\* the writer after the token's pp_write_bits calls.
EncodeAt(c, p) ==
    LET c1 == pp_update_hash(c, p)
        m == pp_find_longest_match(c1, p)
    IN  IF m.length >= MIN_MATCH
        THEN LET c2 == [c1 EXCEPT !.matches_found = @ + 1]
                 w == WriteMatch(Writer(c2), c2.output_size, m)
             IN  [match |-> m, w |-> w,
                  ctx |-> Store(UpdateInside(c2, p, 1, m.length), w),
                  token |-> [kind |-> "match", pos |-> p,
                             offset |-> m.offset, length |-> m.length],
                  pos |-> p + m.length]
        ELSE LET w == WriteLiteral(Writer(c1), c1.output_size, In(p))
             IN  [match |-> m, w |-> w,
                  ctx |-> Store(c1, w),
                  token |-> [kind |-> "literal", pos |-> p,
                             offset |-> 0, length |-> 1],
                  pos |-> p + 1]

\* One iteration of the encode loop.
EncStep ==
    /\ pc = "enc"
    /\ pos < input_size
    /\ \E e \in {EncodeAt(ctx, pos)} :
        /\ match' = e.match
        /\ ctx' = e.ctx
        /\ bit_buffer' = e.w.bit_buffer
        /\ bits_in_buffer' = e.w.bits_in_buffer
        /\ dropped' = dropped + e.w.dropped
        /\ tokens' = Append(tokens, e.token)
        /\ pos' = e.pos
    /\ UNCHANGED <<pc, proc, calls, input, input_size, level, ocap, start,
                   rc, artifact, out_len, log>>
    /\ UNCHANGED decVars

\* The flush after the encode loop.
Flush(c) ==
    IF c.output_pos < c.output_size
    THEN pp_write_bits(Writer(c), c.output_size, 0, 7)
    ELSE Writer(c)

\* A compressed_size that leaves the header out.
BackpatchPayloadSize(out, output_pos, checksum) ==
    Patch(Patch(out, 8, LE32(output_pos - HEADER_SIZE)), 14, LE16(checksum))

\* The header fields pp_compress sets after the loop.
Backpatch(out, output_pos, checksum) ==
    Patch(Patch(out, 8, LE32(output_pos)), 14, LE16(checksum))

\* pp_compress after the encode loop: flush, header update, checksum, copy
\* to the caller and return.
EncFinish ==
    /\ pc = "enc"
    /\ pos >= input_size
    /\ \E w \in {Flush(ctx)} :
       \E final \in {Backpatch(ctx.output \o w.bytes, w.output_pos,
                               Checksum(InputBytes))} :
       \E ret \in {IF w.output_pos <= ocap THEN 0 ELSE -2} :
        /\ bit_buffer' = w.bit_buffer
        /\ bits_in_buffer' = w.bits_in_buffer
        /\ dropped' = dropped + w.dropped
        /\ artifact' = IF ret = 0 THEN final ELSE artifact
        /\ out_len' = w.output_pos
        /\ rc' = <<ret>>
        /\ log' = log \cup {[proc |-> proc, input |-> input,
                             level |-> level, start |-> start,
                             rc |-> ret, len |-> w.output_pos,
                             size |-> input_size,
                             bytes |-> IF ret = 0 THEN final ELSE <<>>]}
    /\ pc' = "idle"
    /\ ctx' = NoCtx
    /\ pos' = 0
    /\ match' = NoMatch
    /\ tokens' = <<>>
    /\ UNCHANGED <<proc, calls, input, input_size, level, ocap, start>>
    /\ UNCHANGED decVars

\* ------------------------------------------------------------ bit reader
\* The while loop of READ_BITS(n) over the bytes of data, on the reader
\* r = [in_ptr, bit_buffer, bits_available, oob].  in_ptr counts from the
\* start of data; a byte at or beyond Len(data) is outside the buffer: it
\* reads as g and sets oob.
RECURSIVE Refill(_, _, _, _)
Refill(data, r, n, g) ==
    IF r.bits_available < n
    THEN Refill(data,
                [in_ptr |-> r.in_ptr + 1,
                 bit_buffer |->
                     BitOr(r.bit_buffer,
                           Shl(IF r.in_ptr < Len(data)
                               THEN data[r.in_ptr + 1] ELSE g,
                               r.bits_available)),
                 bits_available |-> r.bits_available + 8,
                 oob |-> r.oob \/ r.in_ptr >= Len(data)],
                n, g)
    ELSE r

READ_BITS(data, r, n, g) ==
    LET f == Refill(data, r, n, g)
    IN  [rd |-> [f EXCEPT !.bit_buffer = Shr(@, n),
                          !.bits_available = @ - n],
         val |-> LowBits(f.bit_buffer, n)]

\* ------------------------------------------------------------ pp_decompress
uncompressed_size == FromLE32(d_in, 5)

\* The copy loop of a match token on st = [out, src_pos, src_bad, src_oob]:
\* out is output[0..out_pos), src_pos is out_pos - offset in uint32_t, held
\* as a negative number when the subtraction wraps (so that src_pos++ comes
\* back to 0 as the wrapped value does).  A source byte the decoder has not
\* written reads as g; one outside output[0..cap) is out of bounds.
CopyByte(st, cap, g) ==
    [out |-> Append(st.out,
                    IF st.src_pos >= 0 /\ st.src_pos < Len(st.out)
                    THEN st.out[st.src_pos + 1] ELSE g),
     src_pos |-> st.src_pos + 1,
     src_bad |-> st.src_bad \/ st.src_pos < 0 \/ st.src_pos >= Len(st.out),
     src_oob |-> st.src_oob \/ st.src_pos < 0 \/ st.src_pos >= cap]

\* n iterations of the copy loop, split in two halves (the comparison, never
\* true, has the first half evaluated before the second begins).
RECURSIVE CopyLoop(_, _, _, _)
CopyLoop(st, n, cap, g) ==
    IF n = 0 THEN st
    ELSE IF n = 1 THEN CopyByte(st, cap, g)
    ELSE LET half == CopyLoop(st, n \div 2, cap, g)
         IN  IF half.src_pos < st.src_pos THEN half
             ELSE CopyLoop(half, n - (n \div 2), cap, g)

CopyMatch(st, i, length, cap, g) == CopyLoop(st, length - i, cap, g)

\* One iteration of the decode loop: the reader, the output and what the
\* iteration accessed.
DecodeToken(g) ==
    LET flag == READ_BITS(d_in, rd, 1, g)
    IN  IF flag.val = 1
        THEN LET offset == READ_BITS(d_in, flag.rd, 15, g)
                 length == READ_BITS(d_in, offset.rd, 8, g)
                 len == length.val + MIN_MATCH
                 cp == CopyMatch([out |-> output,
                                  src_pos |-> out_pos - offset.val,
                                  src_bad |-> FALSE, src_oob |-> FALSE],
                                 0, len, d_cap, g)
             IN  [rd |-> length.rd,
                  out |-> cp.out,
                  src_bad |-> cp.src_bad,
                  src_oob |-> cp.src_oob,
                  bad_offset |-> offset.val = 0 \/ offset.val > out_pos,
                  overrun |-> out_pos + len > uncompressed_size,
                  token |-> [offset |-> offset.val, length |-> len]]
        ELSE LET literal == READ_BITS(d_in, flag.rd, 8, g)
             IN  [rd |-> literal.rd,
                  out |-> Append(output, literal.val),
                  src_bad |-> FALSE,
                  src_oob |-> FALSE,
                  bad_offset |-> FALSE,
                  overrun |-> FALSE,
                  token |-> acc.token]

\* The iteration leaves the buffers the caller gave.
OutOfBounds(t) == t.rd.oob \/ t.src_oob \/ Len(t.out) > d_cap

\* pp_decompress up to the decode loop, on the artifact a with capacity cap.
Enter(a, cap, own) ==
    /\ d_in' = a
    /\ d_cap' = cap
    /\ honest' = own
    /\ rd' = [NoReader EXCEPT !.in_ptr = HEADER_SIZE]
    /\ out_pos' = 0
    /\ output' = <<>>
    /\ acc' = NoAccess
    /\ IF Len(a) < HEADER_SIZE \/ FromLE16(a, 1) # PP_MAGIC
       THEN /\ d_rc' = <<-1>>
            /\ d_len' = cap
            /\ pc' = "idle"
       ELSE IF cap < FromLE32(a, 5)
       THEN /\ d_rc' = <<-2>>
            /\ d_len' = FromLE32(a, 5)
            /\ pc' = "idle"
       ELSE /\ d_rc' = <<>>
            /\ d_len' = cap
            /\ pc' = "dec"

\* The capacities a caller gives for an output of n bytes.
DCaps(n) == {c \in {n - 1, n, n + 1} : c >= 0}

\* pp_decompress of the artifact the last pp_compress returned.
DecompressArtifact ==
    /\ pc = "idle"
    /\ rc = <<0>>
    /\ d_rc = <<>>
    /\ \E cap \in DCaps(input_size) : Enter(artifact, cap, TRUE)
    /\ UNCHANGED <<bit_buffer, bits_in_buffer, proc, calls, log>>
    /\ UNCHANGED encVars

\* The artifacts a caller may hand to pp_decompress: a header with any
\* magic, size and checksum, then any bytes.
BodyBytes == {0, 1, 3, 6, 194}
Bodies == UNION {[1..n -> BodyBytes] : n \in 0..MaxBody}
Crafted ==
    {<<80, 80>>} \cup
    {LE16(magic) \o <<1, 0>> \o LE32(size) \o LE32(HEADER_SIZE + Len(body))
        \o <<DEFAULT_LEVEL, 0>> \o LE16(checksum) \o body :
        magic \in {PP_MAGIC, 0}, size \in 0..MaxSize, checksum \in {0, 97},
        body \in Bodies}

\* The first pp_decompress call of a process, on an artifact of the
\* caller's.  The decoder keeps no state between calls.
DecompressCrafted ==
    /\ pc = "idle"
    /\ d_in = <<>>
    /\ \E a \in Crafted :
       \E cap \in DCaps(IF Len(a) >= HEADER_SIZE THEN FromLE32(a, 5) ELSE 0) :
          Enter(a, cap, FALSE)
    /\ UNCHANGED <<bit_buffer, bits_in_buffer, proc, calls, log>>
    /\ UNCHANGED encVars

\* One iteration of the decode loop.
DecStep ==
    /\ pc = "dec"
    /\ out_pos < uncompressed_size
    /\ \E g \in Garbage :
       \E t \in {DecodeToken(g)} :
        /\ rd' = t.rd
        /\ output' = t.out
        /\ out_pos' = Len(t.out)
        /\ acc' = [in_oob |-> acc.in_oob \/ t.rd.oob,
                   out_oob |-> acc.out_oob \/ Len(t.out) > d_cap,
                   src_bad |-> acc.src_bad \/ t.src_bad,
                   bad_offset |-> acc.bad_offset \/ t.bad_offset,
                   overrun |-> acc.overrun \/ t.overrun,
                   token |-> t.token]
    /\ UNCHANGED <<pc, d_in, d_cap, d_rc, d_len, honest>>
    /\ UNCHANGED <<bit_buffer, bits_in_buffer, proc, calls, log>>
    /\ UNCHANGED encVars

\* An iteration of the decode loop that leaves the buffers may end the
\* process instead.
DecFault ==
    /\ pc = "dec"
    /\ out_pos < uncompressed_size
    /\ \E g \in Garbage : OutOfBounds(DecodeToken(g))
    /\ pc' = "fault"
    /\ UNCHANGED <<d_in, d_cap, rd, out_pos, output, d_rc, d_len, honest,
                   acc>>
    /\ UNCHANGED <<bit_buffer, bits_in_buffer, proc, calls, log>>
    /\ UNCHANGED encVars

\* pp_decompress after the decode loop: the length and the checksum.
DecFinish ==
    /\ pc = "dec"
    /\ out_pos >= uncompressed_size
    /\ d_len' = out_pos
    /\ d_rc' = IF Checksum(output) # FromLE16(d_in, 15) THEN <<-3>>
               ELSE <<0>>
    /\ pc' = "idle"
    /\ UNCHANGED <<d_in, d_cap, rd, out_pos, output, honest, acc>>
    /\ UNCHANGED <<bit_buffer, bits_in_buffer, proc, calls, log>>
    /\ UNCHANGED encVars

\* ------------------------------------------------------------ match token
\* The distances and lookaheads around the limits of a match.
Distances ==
    {1, 2, 3, 255, 256, MAX_WINDOW_SIZE - 1, MAX_WINDOW_SIZE,
     MAX_WINDOW_SIZE + 1}
Lookaheads ==
    {MIN_MATCH, MIN_MATCH + 1, MIN_MATCH + 2, MAX_LOOKAHEAD - 1,
     MAX_LOOKAHEAD, MAX_LOOKAHEAD + 1}

\* pp_init_context on a run of d + n equal bytes and pp_update_hash at
\* position 0: a context in which position 0 only is indexed, with the
\* encoder at position d.
TokIndex ==
    /\ pc = "idle"
    /\ calls = 0
    /\ \E d \in Distances, n \in Lookaheads :
        /\ input' = <<171>>
        /\ input_size' = d + n
        /\ ctx' = pp_update_hash(pp_init_context(d + n), 0)'
        /\ pos' = d
    /\ calls' = 1
    /\ pc' = "toki"
    /\ UNCHANGED <<bit_buffer, bits_in_buffer, proc, level, ocap, match,
                   tokens, dropped, start, rc, artifact, out_len, log>>
    /\ UNCHANGED decVars

\* pp_find_longest_match at pos.
TokFind ==
    /\ pc = "toki"
    /\ match' = pp_find_longest_match(ctx, pos)
    /\ pc' = "tok"
    /\ UNCHANGED <<bit_buffer, bits_in_buffer, proc, calls, input,
                   input_size, level, ocap, ctx, pos, tokens, dropped, start,
                   rc, artifact, out_len, log>>
    /\ UNCHANGED decVars

\* The three pp_write_bits calls of the match token, then the flush.
TokWrite ==
    /\ pc = "tok"
    /\ match.length >= MIN_MATCH
    /\ \E w \in {WriteMatch(Writer(ctx), ctx.output_size, match)} :
       \E f \in {Flush(Store(ctx, w))} :
        /\ ctx' = Store(Store(ctx, w), f)
        /\ bit_buffer' = f.bit_buffer
        /\ bits_in_buffer' = f.bits_in_buffer
        /\ dropped' = dropped + w.dropped + f.dropped
    /\ tokens' = <<[kind |-> "match", pos |-> pos, offset |-> match.offset,
                    length |-> match.length]>>
    /\ pc' = "tokw"
    /\ UNCHANGED <<proc, calls, input, input_size, level, ocap, pos, match,
                   start, rc, artifact, out_len, log>>
    /\ UNCHANGED decVars

\* The decoder's READ_BITS(1), READ_BITS(15), READ_BITS(8) on the bytes
\* written.
TokRead ==
    /\ pc = "tokw"
    /\ \E g \in Garbage :
       \E flag \in {READ_BITS(ctx.output, NoReader, 1, g)} :
       \E offset \in {READ_BITS(ctx.output, flag.rd, 15, g)} :
       \E length \in {READ_BITS(ctx.output, offset.rd, 8, g)} :
        /\ rd' = length.rd
        /\ acc' = [NoAccess EXCEPT
                     !.in_oob = length.rd.oob,
                     !.token = [offset |-> offset.val,
                                length |-> length.val + MIN_MATCH]]
        /\ d_rc' = <<flag.val>>
    /\ d_in' = ctx.output
    /\ pc' = "tokr"
    /\ UNCHANGED <<d_cap, out_pos, output, d_len, honest>>
    /\ UNCHANGED <<bit_buffer, bits_in_buffer, proc, calls, log>>
    /\ UNCHANGED encVars

\* ------------------------------------------------------------ capacity
\* The counters of pp_write_bits on w = [bits_in_buffer, output_pos,
\* dropped]: the bytes themselves are left out.
RECURSIVE CountDrain(_, _)
CountDrain(w, output_size) ==
    IF w.bits_in_buffer >= 8
    THEN CountDrain([bits_in_buffer |-> w.bits_in_buffer - 8,
                     output_pos |-> IF w.output_pos < output_size
                                    THEN w.output_pos + 1 ELSE w.output_pos,
                     dropped |-> IF w.output_pos < output_size
                                 THEN w.dropped ELSE w.dropped + 1],
                    output_size)
    ELSE w

CountBits(w, output_size, num_bits) ==
    CountDrain([w EXCEPT !.bits_in_buffer = @ + num_bits], output_size)

Counter(c) ==
    [bits_in_buffer |-> bits_in_buffer, output_pos |-> c.output_pos,
     dropped |-> 0]

CapSizes == {CapLen - 8, CapLen - 7, CapLen}

\* pp_compress up to the encode loop on a run of N equal bytes, with the
\* capacity main gives.  From here on the model follows the counters only:
\* the output bytes, the hash table and the chains are not kept.
CapCall ==
    /\ pc = "idle"
    /\ calls = 0
    /\ \E N \in CapSizes :
        /\ input_size' = N
        /\ ocap' = 2 * N
        /\ out_len' = 2 * N
        /\ ctx' = [pp_init_context(N) EXCEPT !.output_pos = HEADER_SIZE]
    /\ input' = <<171>>
    /\ level' = DEFAULT_LEVEL
    /\ start' = [bit_buffer |-> bit_buffer,
                 bits_in_buffer |-> bits_in_buffer]
    /\ calls' = 1
    /\ pc' = "cap"
    /\ UNCHANGED <<bit_buffer, bits_in_buffer, proc, pos, match, tokens,
                   dropped, rc, artifact, log>>
    /\ UNCHANGED decVars

\* One iteration of the encode loop, on the counters.  pp_find_longest_match
\* reads hash_table[hash] first, which pp_update_hash has just set to pos.
CapStep ==
    /\ pc = "cap"
    /\ pos < input_size
    /\ \E m \in {pp_find_longest_match(pp_update_hash(ctx, pos), pos)} :
       \E w \in {IF m.length >= MIN_MATCH
                 THEN CountBits(CountBits(CountBits(Counter(ctx),
                                    ctx.output_size, 1),
                                ctx.output_size, 15),
                            ctx.output_size, 8)
                 ELSE CountBits(CountBits(Counter(ctx), ctx.output_size, 1),
                                ctx.output_size, 8)} :
        /\ match' = m
        /\ pos' = IF m.length >= MIN_MATCH THEN pos + m.length ELSE pos + 1
        /\ ctx' = [ctx EXCEPT !.output_pos = w.output_pos]
        /\ bits_in_buffer' = w.bits_in_buffer
        /\ dropped' = dropped + w.dropped
    /\ UNCHANGED <<bit_buffer, pc, proc, calls, input, input_size, level,
                   ocap, tokens, start, rc, artifact, out_len, log>>
    /\ UNCHANGED decVars

\* pp_compress after the encode loop, on the counters.
CapFinish ==
    /\ pc = "cap"
    /\ pos >= input_size
    /\ \E w \in {IF ctx.output_pos < ctx.output_size
                 THEN CountBits(Counter(ctx), ctx.output_size, 7)
                 ELSE Counter(ctx)} :
        /\ bits_in_buffer' = w.bits_in_buffer
        /\ dropped' = dropped + w.dropped
        /\ out_len' = w.output_pos
        /\ rc' = IF w.output_pos <= ocap THEN <<0>> ELSE <<-2>>
    /\ pc' = "idle"
    /\ ctx' = NoCtx
    /\ UNCHANGED <<bit_buffer, proc, calls, input, input_size, level, ocap,
                   pos, match, tokens, start, artifact, log>>
    /\ UNCHANGED decVars

\* A new process: the static initialisers of pp_write_bits.
ProcessStart ==
    /\ pc \in {"idle", "fault"}
    /\ calls > 0
    /\ proc < MaxProcs
    /\ proc' = proc + 1
    /\ bit_buffer' = 0
    /\ bits_in_buffer' = 0
    /\ pc' = "idle"
    /\ input' = <<>>
    /\ input_size' = 0
    /\ level' = 0
    /\ ocap' = 0
    /\ ctx' = NoCtx
    /\ pos' = 0
    /\ match' = NoMatch
    /\ tokens' = <<>>
    /\ dropped' = 0
    /\ start' = [bit_buffer |-> 0, bits_in_buffer |-> 0]
    /\ rc' = <<>>
    /\ artifact' = <<>>
    /\ out_len' = 0
    /\ ResetDecoder
    /\ UNCHANGED <<calls, log>>

Init ==
    /\ bit_buffer = 0
    /\ bits_in_buffer = 0
    /\ pc = "idle"
    /\ proc = 1
    /\ calls = 0
    /\ input = <<>>
    /\ input_size = 0
    /\ level = 0
    /\ ocap = 0
    /\ ctx = NoCtx
    /\ pos = 0
    /\ match = NoMatch
    /\ tokens = <<>>
    /\ dropped = 0
    /\ start = [bit_buffer |-> 0, bits_in_buffer |-> 0]
    /\ rc = <<>>
    /\ artifact = <<>>
    /\ out_len = 0
    /\ log = {}
    /\ d_in = <<>>
    /\ d_cap = 0
    /\ rd = NoReader
    /\ out_pos = 0
    /\ output = <<>>
    /\ d_rc = <<>>
    /\ d_len = 0
    /\ honest = FALSE
    /\ acc = NoAccess

Next ==
    \/ ProcessStart
    \/ CompressCall
    \/ EncStep
    \/ EncFinish
    \/ DecompressArtifact
    \/ DecStep
    \/ DecFault
    \/ DecFinish

Spec == Init /\ [][Next]_vars

\* A process that decompresses artifacts of any origin.
NextDec ==
    \/ DecompressCrafted
    \/ DecStep
    \/ DecFault
    \/ DecFinish

SpecDec == Init /\ [][NextDec]_vars

\* A process that compresses and decompresses the scenario inputs.
NextScen ==
    \/ ProcessStart
    \/ ScenarioCall
    \/ EncStep
    \/ EncFinish
    \/ DecompressArtifact
    \/ DecStep
    \/ DecFault
    \/ DecFinish

SpecScen == Init /\ [][NextScen]_vars

\* The match token alone: found, written, read back.
NextTok ==
    \/ TokIndex
    \/ TokFind
    \/ TokWrite
    \/ TokRead

SpecTok == Init /\ [][NextTok]_vars

\* The output counters of one pp_compress call on a long input.
NextCap ==
    \/ CapCall
    \/ CapStep
    \/ CapFinish

SpecCap == Init /\ [][NextCap]_vars

\* ------------------------------------------------------------ claims
\* The sum of the bytes of a buffer.
RECURSIVE SumRange(_, _, _)
SumRange(data, lo, hi) ==
    IF lo > hi THEN 0
    ELSE IF lo = hi THEN data[lo]
    ELSE SumRange(data, lo, (lo + hi) \div 2)
             + SumRange(data, ((lo + hi) \div 2) + 1, hi)

SumBytes(data, n) == SumRange(data, 1, n)

\* A pp_decompress call on the artifact of a successful pp_compress, with
\* room for the input, has returned.
RoundTripDone ==
    pc = "idle" /\ honest /\ d_rc # <<>> /\ d_cap >= input_size

\* C1: decompressing the artifact of a successful pp_compress with an
\* output capacity of at least |B| returns 0, reports |B| bytes and gives
\* back the bytes of B.
C1_RoundTrip ==
    RoundTripDone =>
        /\ d_rc = <<0>>
        /\ d_len = input_size
        /\ output = InputBytes

\* C5: within one process, two pp_compress calls with the same input and
\* level report the same length and, when both succeed, give the same
\* bytes.
C5_SameInputSameBytes ==
    \A e1 \in log : \A e2 \in log :
        (e1.proc = e2.proc /\ e1.input = e2.input /\ e1.size = e2.size
            /\ e1.level = e2.level)
        => /\ e1.len = e2.len
           /\ (e1.rc = 0 /\ e2.rc = 0) => e1.bytes = e2.bytes

\* Two successful pp_compress calls of the same input from the same state
\* of the static accumulator.
SameStart(e1, e2) ==
    /\ e1.input = e2.input
    /\ e1.size = e2.size
    /\ e1.start = e2.start
    /\ e1.rc = 0
    /\ e2.rc = 0

\* C6 as claimed: the artifacts of the same input at any two levels, from
\* the same encoder state, are the same in every byte, header included.
C6_LevelFree ==
    \A e1 \in log : \A e2 \in log :
        SameStart(e1, e2) => e1.bytes = e2.bytes

\* C6 as amended: the artifacts of the same input at any two levels, from
\* the same encoder state, have the same length and differ at most in
\* byte 12, the compression_level field, which holds the level.
C6_LevelOnlyInHeaderField ==
    \A e1 \in log : \A e2 \in log :
        SameStart(e1, e2) =>
            /\ e1.len = e2.len
            /\ Len(e1.bytes) = Len(e2.bytes)
            /\ \A i \in 1..Len(e1.bytes) :
                  i # 13 => e1.bytes[i] = e2.bytes[i]
            /\ e1.bytes[13] = e1.level

\* Two successful calls on the same input at different levels.
C6_TwoLevels ==
    \E e1 \in log : \E e2 \in log :
        /\ SameStart(e1, e2)
        /\ e1.level # e2.level
        /\ e1.size >= 2

\* C7: the artifact of a successful pp_compress starts with 0x50 0x50, its
\* uncompressed_size field is the input length, its compressed_size field
\* is the length reported in *output_size, which is the artifact's length,
\* and its checksum field is the sum of the input bytes modulo 2^16.
C7_HeaderWellFormed ==
    (pc = "idle" /\ rc = <<0>>) =>
        /\ artifact[1] = 80
        /\ artifact[2] = 80
        /\ FromLE32(artifact, 5) = input_size
        /\ FromLE32(artifact, 9) = out_len
        /\ Len(artifact) = out_len
        /\ FromLE16(artifact, 15) = SumBytes(InputBytes, input_size) % 65536

\* A successful pp_compress of an input whose bytes sum to more than 2^16.
C7_ChecksumWrapped ==
    /\ pc = "idle"
    /\ rc = <<0>>
    /\ SumBytes(InputBytes, input_size) > 65535
    /\ FromLE16(artifact, 15) = SumBytes(InputBytes, input_size) - 65536

\* C2: on an artifact that passes the magic and capacity checks the decoder
\* never has more than uncompressed_size bytes written, and copies no match
\* token that would pass uncompressed_size.  Stated for the calls in which
\* every token lies within the artifact and every offset within 1..out_pos.
C2_WritesWithinSize ==
    (Len(d_in) >= HEADER_SIZE /\ pc \in {"dec", "idle"}
        /\ ~acc.in_oob /\ ~acc.bad_offset /\ ~acc.src_bad)
        => (Len(output) <= uncompressed_size /\ ~acc.overrun)

\* C3: the decoder copies no match token whose offset is 0 or greater than
\* out_pos, so every source index it reads lies in 0..out_pos-1.  Stated
\* for the calls in which every token lies within the artifact and no
\* match passes uncompressed_size.
C3_OffsetsChecked ==
    (~acc.in_oob /\ ~acc.overrun) => (~acc.bad_offset /\ ~acc.src_bad)

\* C4: the decoder reads no input byte at an index >= input_size, and a call
\* on an artifact whose tokens end early does not return success.  Stated
\* for the calls whose tokens are all literals.
C4_ReadsWithinInput ==
    (acc.token = NoMatch)
        => (~acc.in_oob /\ (d_rc = <<0>> => rd.in_ptr <= Len(d_in)))

\* The positions q < p that pp_update_hash has indexed when the encode loop
\* reaches p: every earlier position with three bytes left (a literal
\* indexes its own position, a match those it covers).
Indexed(p) == {q \in 0..(p - 1) : q + MIN_MATCH <= input_size}

Repeats(p) ==
    /\ p + MIN_MATCH <= input_size
    /\ \E q \in Indexed(p) :
        /\ p - q <= MAX_WINDOW_SIZE
        /\ \A i \in 0..(MIN_MATCH - 1) : In(q + i) = In(p + i)

\* C8: a position whose next three bytes occur at an earlier indexed
\* position gets a match token of length >= 3; "abcabcabcabc" is encoded as
\* a, b, c, match(3, 9); 300 equal bytes give a match of length 258.
C8_MatchForRepeats ==
    /\ \A k \in 1..Len(tokens) :
          Repeats(tokens[k].pos)
              => (tokens[k].kind = "match" /\ tokens[k].length >= MIN_MATCH)
    /\ (pc = "enc" /\ pos >= input_size /\ input = <<97, 98, 99>>
            /\ input_size = 12)
          => /\ Len(tokens) = 4
             /\ \A k \in 1..3 : tokens[k].kind = "literal"
                                   /\ tokens[k].pos = k - 1
             /\ tokens[4].kind = "match" /\ tokens[4].offset = 3
                                         /\ tokens[4].length = 9
    /\ (pc = "enc" /\ pos >= input_size /\ input_size = LongRun)
          => \E k \in 1..Len(tokens) :
                tokens[k].kind = "match" /\ tokens[k].length = MAX_LOOKAHEAD

\* C9: the internal buffer of input_size + input_size/10 + 1024 bytes takes
\* every byte of the call: pp_write_bits drops none, and the flush is not
\* skipped while bits are pending.
C9_BufferSuffices ==
    /\ dropped = 0
    /\ (pc = "cap" /\ pos >= input_size /\ bits_in_buffer > 0)
          => ctx.output_pos < ctx.output_size

\* C10: pp_find_longest_match admits offsets 1..32768 with lengths 3..258,
\* and the token written for an admitted match reads back as flag 1 with
\* the same offset and the same length.
C10_TokenRoundTrip ==
    /\ (pc = "tok" /\ match # NoMatch)
          => /\ match.offset \in 1..MAX_WINDOW_SIZE
             /\ match.length \in MIN_MATCH..MAX_LOOKAHEAD
    /\ pc = "tokr" => (d_rc = <<1>> /\ acc.token = match)

=============================================================================
